---- MODULE Spec2Model ----
(***************************************************************************)
(* Model of the context store of the productivity agent                    *)
(* (src/context-manager.js, class ContextManager, exported as a singleton).*)
(*                                                                         *)
(* The store is one object with three mutable fields: emailCache (a JS Map,*)
(* iterated in insertion order), activeEmailIds (an array) and             *)
(* conversationHistory (an array).  Every method of the class is           *)
(* synchronous, so under Node's single-threaded event loop each call is    *)
(* one atomic step; concurrent requests interleave whole calls.  Next      *)
(* therefore lets any method be called with any argument in any order.     *)
(*                                                                         *)
(* JS strings are TLA+ strings (Len, \o and SubSeq act on them).  The      *)
(* Date.now() stamps (cachedAt, timestamp) are wall-clock readings that no *)
(* method of the store ever reads back; the entries are modelled without   *)
(* them.                                                                   *)
(***************************************************************************)
EXTENDS FiniteSets, Integers, Sequences, TLC

(***************************************************************************)
(* Capacities.  The constructor sets this.maxHistory = 10 and              *)
(* this.maxCache = 50 (context-manager.js:18,21); the methods read the     *)
(* fields, never the literals, and the model is run with smaller           *)
(* capacities so that eviction and trimming happen within a finite search. *)
(***************************************************************************)
maxHistory == 4

maxCache == 2

\* longest array handed to setActiveEmails / addActiveEmails
MaxIdsLen == 2

\* message identifiers (opaque strings; more of them than fit in the cache)
MessageIds == {"m1", "m2", "m3"}

\* the identifiers that callers put in focus
FocusIds == {"m1", "m2"}

\* addExchange calls followed since construction or clear()
MaxExchanges == maxHistory + 1

VARIABLES
    emailCache,           \* this.emailCache: <<[key, value]>> in Map iteration order
    activeEmailIds,       \* this.activeEmailIds
    conversationHistory,  \* this.conversationHistory
    ret,                  \* what the last call returned: [op |-> method, value |-> result]
                          \* (getCachedEmail: with arg |-> its messageId); cacheEmail,
                          \* setActiveEmails, addActiveEmails and addExchange leave Void
    cacheLog,             \* history variable: the ids passed to cacheEmail since
                          \* construction/clear, kept as long as no id was passed twice
    exchangeLog,          \* history variable: exchanges passed to addExchange since construction/clear
    emailContent,         \* the message handed to buildDigest: [headers, body, snippet]
    result,               \* what buildDigest made of emailContent (Null: not called yet)
    requests,             \* the POST /api/message requests: one record per request
    reads,                \* the read_email tool calls: one record per call
    fetchLog              \* history variable: the ids passed to getEmailContent

\* the digest pipeline's and the server's variables
pipelineVars == <<emailContent, result>>

serverVars == <<requests, reads, fetchLog>>

vars == <<emailCache, activeEmailIds, conversationHistory, ret, cacheLog, exchangeLog,
          emailContent, result, requests, reads, fetchLog>>

----------------------------------------------------------------------------
(* JS values *)

Undefined == [jsundefined |-> TRUE]

Null == [jsnull |-> TRUE]

\* ret after a method without a return value
Void == [op |-> "void", value |-> Undefined]

\* Boolean(x) for the values the store holds: objects are truthy
Truthy(x) == x # Undefined /\ x # Null

Min(a, b) == IF a < b THEN a ELSE b

Max(a, b) == IF a > b THEN a ELSE b

\* String.prototype.substring(0, n)
substring0(s, n) == SubSeq(s, 1, Min(n, Len(s)))

\* Array.prototype.slice(-n)
sliceLast(a, n) == SubSeq(a, Max(1, Len(a) - n + 1), Len(a))

RECURSIVE join(_, _)
\* Array.prototype.join(sep) on an array of strings
join(a, sep) ==
    IF Len(a) = 0 THEN ""
    ELSE IF Len(a) = 1 THEN a[1]
    ELSE a[1] \o sep \o join(Tail(a), sep)

----------------------------------------------------------------------------
(* JS Map, as the sequence of its entries in insertion order *)

MapHas(m, k) == \E i \in 1..Len(m) : m[i].key = k

MapGet(m, k) ==
    IF MapHas(m, k)
    THEN m[CHOOSE i \in 1..Len(m) : m[i].key = k].value
    ELSE Undefined

\* set keeps the position of a key that is present, appends a new key
MapSet(m, k, v) ==
    IF MapHas(m, k)
    THEN [i \in 1..Len(m) |-> IF m[i].key = k THEN [key |-> k, value |-> v] ELSE m[i]]
    ELSE Append(m, [key |-> k, value |-> v])

MapDelete(m, k) == SelectSeq(m, LAMBDA e : e.key # k)

\* m.keys().next().value, used on a non-empty map only
MapFirstKey(m) == m[1].key

MapKeys(m) == [i \in 1..Len(m) |-> m[i].key]

RECURSIVE SetOf(_)
\* [...new Set(a)]: first occurrences, in order
SetOf(a) ==
    IF Len(a) = 0 THEN <<>>
    ELSE LET init == SetOf(SubSeq(a, 1, Len(a) - 1))
             x    == a[Len(a)]
         IN  IF \E i \in 1..Len(init) : init[i] = x THEN init ELSE Append(init, x)

----------------------------------------------------------------------------
(* Inputs *)

\* digests as buildDigest returns them (email-processor.js:141-154)
DigestSparse ==
    [from |-> "Unknown", to |-> "", subject |-> "No Subject", date |-> "",
     type |-> "personal", summary |-> "No readable content",
     keyPoints |-> <<>>, actionItems |-> <<>>, dates |-> <<>>, amounts |-> <<>>,
     actionRequired |-> FALSE, fullBodyLength |-> 0]

DigestRich ==
    [from |-> "billing@shop.com", to |-> "me@example.com",
     subject |-> "Invoice #123", date |-> "Mon, 3 Mar 2025",
     type |-> "transactional",
     summary |-> "Please confirm the payment of $250.00 by 3/15/2025",
     keyPoints |-> <<"Please confirm the payment of $250.00 by 3/15/2025">>,
     actionItems |-> <<"Please confirm the payment of $250.00 by 3/15/2025">>,
     dates |-> <<"3/15/2025">>, amounts |-> <<"$250.00">>,
     actionRequired |-> TRUE, fullBodyLength |-> 52]

Digests == {DigestSparse, DigestRich}

RECURSIVE repeat(_, _)
\* String.prototype.repeat
repeat(str, n) ==
    IF n = 0 THEN ""
    ELSE IF n = 1 THEN str
    ELSE repeat(str, n \div 2) \o repeat(str, n - n \div 2)

\* a user message of exactly 150 characters and an agent message of 151: the
\* two sides of the length test of getContextForLLM
UserMsgs == {"what about the invoice of March? " \o repeat("?", 117)}

AgentMsgs == {"It is due on 3/15/2025. " \o repeat(".", 127)}

RECURSIVE SeqsUpTo(_, _)
SeqsUpTo(S, n) ==
    IF n = 0 THEN {<<>>}
    ELSE LET shorter == SeqsUpTo(S, n - 1)
         IN  shorter \cup {Append(s, x) : s \in shorter, x \in S}

\* the argument of setActiveEmails / addActiveEmails: an array of ids or a bare id
IdsArgs ==
    {[isArray |-> TRUE, items |-> s] : s \in SeqsUpTo(FocusIds, MaxIdsLen)}
    \cup {[isArray |-> FALSE, item |-> id] : id \in FocusIds}

\* Array.isArray(ids) ? ids : [ids]
asArray(ids) == IF ids.isArray THEN ids.items ELSE <<ids.item>>

----------------------------------------------------------------------------
(* constructor *)

NoInserts == [distinct |-> TRUE, ids |-> <<>>]

\* the log after one more cacheEmail(messageId, ...)
logInsert(log, messageId) ==
    IF log.distinct /\ \A i \in 1..Len(log.ids) : log.ids[i] # messageId
    THEN [distinct |-> TRUE, ids |-> Append(log.ids, messageId)]
    ELSE [distinct |-> FALSE, ids |-> <<>>]

Init ==
    /\ emailCache = <<>>
    /\ activeEmailIds = <<>>
    /\ conversationHistory = <<>>
    /\ ret = Void
    /\ cacheLog = NoInserts
    /\ exchangeLog = <<>>
    /\ emailContent = Null
    /\ result = Null
    /\ requests = <<>>
    /\ reads = <<>>
    /\ fetchLog = <<>>

----------------------------------------------------------------------------
(* cacheEmail(messageId, digest) *)

\* variant: the capacity check is missing
cacheEmailMap_noEvict(m, messageId, digest) == MapSet(m, messageId, digest)

\* variant: evicts the newest key instead of the oldest
cacheEmailMap_evictLast(m, messageId, digest) ==
    LET evicted == IF Len(m) >= maxCache THEN MapDelete(m, m[Len(m)].key) ELSE m
    IN  MapSet(evicted, messageId, digest)

\* the map after cacheEmail: evict the first key when at capacity, then set
cacheEmailMap(m, messageId, digest) ==
    LET evicted == IF Len(m) >= maxCache THEN MapDelete(m, MapFirstKey(m)) ELSE m
    IN  MapSet(evicted, messageId, digest)

cacheEmail(messageId, digest) ==
    /\ emailCache' = cacheEmailMap(emailCache, messageId, digest)
    /\ cacheLog' = logInsert(cacheLog, messageId)
    /\ ret' = Void
    /\ UNCHANGED <<activeEmailIds, conversationHistory, exchangeLog>>
    /\ UNCHANGED <<pipelineVars, serverVars>>

(* getCachedEmail(messageId) *)

\* this.emailCache.get(messageId) || null
getCachedEmailValue(m, messageId) ==
    IF Truthy(MapGet(m, messageId)) THEN MapGet(m, messageId) ELSE Null

\* variant: a hit refreshes the entry's recency (delete and re-insert), as an LRU would
getCachedEmail_lru(messageId) ==
    /\ ret' = [op |-> "getCachedEmail", arg |-> messageId,
               value |-> getCachedEmailValue(emailCache, messageId)]
    /\ emailCache' = IF MapHas(emailCache, messageId)
                     THEN MapSet(MapDelete(emailCache, messageId), messageId,
                                 MapGet(emailCache, messageId))
                     ELSE emailCache
    /\ UNCHANGED <<activeEmailIds, conversationHistory, cacheLog, exchangeLog>>
    /\ UNCHANGED <<pipelineVars, serverVars>>

getCachedEmail(messageId) ==
    /\ ret' = [op |-> "getCachedEmail", arg |-> messageId,
               value |-> getCachedEmailValue(emailCache, messageId)]
    /\ emailCache' = emailCache
    /\ UNCHANGED <<activeEmailIds, conversationHistory, cacheLog, exchangeLog>>
    /\ UNCHANGED <<pipelineVars, serverVars>>

(* clear() *)

\* variant: the history is not reset
clear_keepsHistory ==
    /\ emailCache' = <<>>
    /\ activeEmailIds' = <<>>
    /\ conversationHistory' = conversationHistory
    /\ ret' = [op |-> "clear", value |-> Undefined,
               dropped |-> Len(emailCache) + Len(activeEmailIds) + Len(conversationHistory)]
    /\ cacheLog' = NoInserts
    /\ exchangeLog' = <<>>
    /\ UNCHANGED <<pipelineVars, serverVars>>

\* ret.dropped is a history field: how many entries the call discarded
clear ==
    /\ emailCache' = <<>>
    /\ activeEmailIds' = <<>>
    /\ conversationHistory' = <<>>
    /\ ret' = [op |-> "clear", value |-> Undefined,
               dropped |-> Len(emailCache) + Len(activeEmailIds) + Len(conversationHistory)]
    /\ cacheLog' = NoInserts
    /\ exchangeLog' = <<>>
    /\ UNCHANGED <<pipelineVars, serverVars>>

----------------------------------------------------------------------------
(* setActiveEmails(ids), addActiveEmails(ids) *)

setActiveEmailsIds(ids) == asArray(ids)

setActiveEmails(ids) ==
    /\ activeEmailIds' = setActiveEmailsIds(ids)
    /\ ret' = Void
    /\ UNCHANGED <<emailCache, conversationHistory, cacheLog, exchangeLog>>
    /\ UNCHANGED <<pipelineVars, serverVars>>

addActiveEmailsIds(active, ids) ==
    LET newIds == asArray(ids)
    IN  SetOf(active \o newIds)

addActiveEmails(ids) ==
    /\ activeEmailIds' = addActiveEmailsIds(activeEmailIds, ids)
    /\ ret' = Void
    /\ UNCHANGED <<emailCache, conversationHistory, cacheLog, exchangeLog>>
    /\ UNCHANGED <<pipelineVars, serverVars>>

(* getActiveDigests() *)

\* variant: the .filter(Boolean) is missing
getActiveDigestsValue_noFilter(m, active) ==
    [i \in 1..Len(active) |-> MapGet(m, active[i])]

\* this.activeEmailIds.map(id => this.emailCache.get(id)).filter(Boolean)
getActiveDigestsValue(m, active) ==
    LET mapped == [i \in 1..Len(active) |-> MapGet(m, active[i])]
    IN  SelectSeq(mapped, Truthy)

\* variant: the ids that are no longer cached are taken off the active list
getActiveDigests_prunes ==
    /\ ret' = [op |-> "getActiveDigests",
               value |-> getActiveDigestsValue(emailCache, activeEmailIds)]
    /\ activeEmailIds' = SelectSeq(activeEmailIds, LAMBDA id : MapHas(emailCache, id))
    /\ UNCHANGED <<emailCache, conversationHistory, cacheLog, exchangeLog>>
    /\ UNCHANGED <<pipelineVars, serverVars>>

getActiveDigests ==
    /\ ret' = [op |-> "getActiveDigests",
               value |-> getActiveDigestsValue(emailCache, activeEmailIds)]
    /\ UNCHANGED <<emailCache, activeEmailIds, conversationHistory, cacheLog, exchangeLog>>
    /\ UNCHANGED <<pipelineVars, serverVars>>

----------------------------------------------------------------------------
(* addExchange(userMsg, agentMsg) *)

\* variant: "if" in place of "while": at most one entry is shifted
trim_once(h) == IF Len(h) > maxHistory * 2 THEN Tail(h) ELSE h

RECURSIVE trim_pop(_)
\* variant: pop() in place of shift(): the newest entries are dropped
trim_pop(h) == IF Len(h) > maxHistory * 2 THEN trim_pop(SubSeq(h, 1, Len(h) - 1)) ELSE h

RECURSIVE trim(_)
\* while (history.length > this.maxHistory * 2) history.shift()
trim(h) == IF Len(h) > maxHistory * 2 THEN trim(Tail(h)) ELSE h

\* the two entries pushed by one call; exchange is a history field: the
\* ordinal of the call since construction/clear
turns(userMsg, agentMsg, n) ==
    << [role |-> "user",  content |-> userMsg,  exchange |-> n],
       [role |-> "agent", content |-> agentMsg, exchange |-> n] >>

addExchangeHistory(h, userMsg, agentMsg, n) == trim(h \o turns(userMsg, agentMsg, n))

addExchange(userMsg, agentMsg) ==
    /\ Len(exchangeLog) < MaxExchanges
    /\ conversationHistory' =
           addExchangeHistory(conversationHistory, userMsg, agentMsg, Len(exchangeLog) + 1)
    /\ exchangeLog' = Append(exchangeLog, turns(userMsg, agentMsg, Len(exchangeLog) + 1))
    /\ ret' = Void
    /\ UNCHANGED <<emailCache, activeEmailIds, cacheLog>>
    /\ UNCHANGED <<pipelineVars, serverVars>>

----------------------------------------------------------------------------
(* getContextForLLM() *)

\* the lines pushed for the i-th active digest (i counted from 0)
digestLines(d, i) ==
    << "Email " \o ToString(i + 1) \o ": From: " \o d.from \o " | Subject: " \o d.subject
          \o " | Type: " \o d.type,
       "Summary: " \o substring0(d.summary, 200) >>
    \o (IF Len(d.actionItems) > 0
        THEN << "Action items: " \o join(d.actionItems, "; ") >> ELSE <<>>)
    \o (IF Len(d.dates) > 0
        THEN << "Key dates: " \o join(d.dates, ", ") >> ELSE <<>>)
    \o (IF Len(d.amounts) > 0
        THEN << "Amounts: " \o join(d.amounts, ", ") >> ELSE <<>>)

RECURSIVE allDigestLines(_, _)
\* activeDigests.forEach((d, i) => ...), from index i on
allDigestLines(ds, i) ==
    IF i >= Len(ds) THEN <<>>
    ELSE digestLines(ds[i + 1], i) \o allDigestLines(ds, i + 1)

activePart(activeDigests) ==
    IF Len(activeDigests) > 0
    THEN << "CURRENTLY DISCUSSED EMAILS:" >> \o allDigestLines(activeDigests, 0)
    ELSE <<>>

\* variant: the length test is >= 150
turnLine_offByOne(msg) ==
    LET truncated == IF Len(msg.content) >= 150
                     THEN substring0(msg.content, 147) \o "..."
                     ELSE msg.content
    IN  msg.role \o ": " \o truncated

turnLine(msg) ==
    LET truncated == IF Len(msg.content) > 150
                     THEN substring0(msg.content, 147) \o "..."
                     ELSE msg.content
    IN  msg.role \o ": " \o truncated

recentPart(h) ==
    LET recent == sliceLast(h, 6)
    IN  IF Len(recent) > 0
        THEN << "\nRECENT CONVERSATION:" >> \o [i \in 1..Len(recent) |-> turnLine(recent[i])]
        ELSE <<>>

\* variant: the header test looks at activeEmailIds instead of the digests found
getContextForLLMValue_idsHeader(m, active, h) ==
    LET activeDigests == getActiveDigestsValue(m, active)
        parts == (IF Len(active) > 0
                  THEN << "CURRENTLY DISCUSSED EMAILS:" >> \o allDigestLines(activeDigests, 0)
                  ELSE <<>>)
                 \o recentPart(h)
    IN  join(parts, "\n")

getContextForLLMValue(m, active, h) ==
    LET activeDigests == getActiveDigestsValue(m, active)
        parts == activePart(activeDigests) \o recentPart(h)
    IN  join(parts, "\n")

getContextForLLM ==
    /\ ret' = [op |-> "getContextForLLM",
               value |-> getContextForLLMValue(emailCache, activeEmailIds, conversationHistory)]
    /\ UNCHANGED <<emailCache, activeEmailIds, conversationHistory, cacheLog, exchangeLog>>
    /\ UNCHANGED <<pipelineVars, serverVars>>

----------------------------------------------------------------------------

Next ==
    \/ \E id \in MessageIds, d \in Digests : cacheEmail(id, d)
    \/ \E id \in MessageIds : getCachedEmail(id)
    \/ \E ids \in IdsArgs : setActiveEmails(ids)
    \/ \E ids \in IdsArgs : addActiveEmails(ids)
    \/ getActiveDigests
    \/ \E u \in UserMsgs, a \in AgentMsgs : addExchange(u, a)
    \/ getContextForLLM
    \/ clear

Spec == Init /\ [][Next]_vars

----------------------------------------------------------------------------
(* Properties of the store *)

NoDuplicates(a) == \A i, j \in 1..Len(a) : a[i] = a[j] => i = j

\* the last n elements of a
LastN(a, n) == SubSeq(a, Len(a) - Min(n, Len(a)) + 1, Len(a))

RECURSIVE Flatten(_)
Flatten(ss) == IF Len(ss) = 0 THEN <<>> ELSE Head(ss) \o Flatten(Tail(ss))

\* C1: the digest cache never holds more than maxCache entries, whatever
\* store methods have been called and in whatever order.
C1_CacheBounded == Len(emailCache) <= maxCache

\* a full cache after a call that had to evict
C1_Witness == Len(emailCache) = maxCache /\ Len(cacheLog.ids) = maxCache + 1

\* C2 (one call): when an id that was not cached enters a cache holding
\* maxCache entries, exactly the first-inserted entry is removed, the others
\* stay as they are and in order, and the new entry is last.
C2_EvictStep ==
    (/\ Len(emailCache) = maxCache
     /\ \E i \in 1..Len(emailCache') : ~MapHas(emailCache, emailCache'[i].key))
        => emailCache' = Append(Tail(emailCache), emailCache'[Len(emailCache')])

\* C2 (scenario): after k distinct ids were inserted into an empty store, the
\* cache holds exactly the last min(k, maxCache) of them in insertion order;
\* for k = maxCache + 1 these are all but the first-inserted id.
C2_DistinctInserts ==
    cacheLog.distinct => MapKeys(emailCache) = LastN(cacheLog.ids, maxCache)

\* C2: cacheDigest of a new id at capacity evicts exactly the oldest-inserted
\* entry and then inserts; maxCache+1 distinct inserts into an empty store
\* leave maxCache entries, the first-inserted id absent, all others present.
C2_FifoEviction == [][C2_EvictStep]_vars /\ [](C2_DistinctInserts)

\* maxCache + 1 distinct ids have been inserted: the first one is gone
C2_Witness ==
    /\ cacheLog.distinct
    /\ Len(cacheLog.ids) = maxCache + 1
    /\ Len(emailCache) = maxCache
    /\ ~MapHas(emailCache, cacheLog.ids[1])
    /\ \A i \in 2..Len(cacheLog.ids) : MapHas(emailCache, cacheLog.ids[i])

\* C3: the conversation history never holds more than 2*maxHistory entries.
C3_HistoryBounded == Len(conversationHistory) <= 2 * maxHistory

\* a full history after a call that had to trim
C3_Witness ==
    Len(conversationHistory) = 2 * maxHistory /\ Len(exchangeLog) = maxHistory + 1

\* C4: after k addExchange calls on a cleared (or new) store the history is
\* exactly the turns of the last min(k, maxHistory) exchanges, in the order
\* recorded.
C4_HistoryIsLastExchanges ==
    conversationHistory = Flatten(LastN(exchangeLog, maxHistory))

\* maxHistory + 1 exchanges recorded: both turns of the first are gone
C4_Witness ==
    /\ Len(exchangeLog) = maxHistory + 1
    /\ Len(conversationHistory) = 2 * maxHistory
    /\ \A i \in 1..Len(conversationHistory) :
           conversationHistory[i].exchange # exchangeLog[1][1].exchange
    /\ \A k \in 2..Len(exchangeLog) : \A t \in 1..2 :
           \E i \in 1..Len(conversationHistory) : conversationHistory[i] = exchangeLog[k][t]

\* C5: the history always consists of whole exchanges: its length is even,
\* and entries 2j-1 and 2j are the user turn and the agent turn of one and
\* the same addExchange call.
C5_TurnsInPairs ==
    /\ Len(conversationHistory) % 2 = 0
    /\ \A i \in 1..Len(conversationHistory) :
           i % 2 = 1 =>
              /\ conversationHistory[i].role = "user"
              /\ i + 1 <= Len(conversationHistory)
              /\ conversationHistory[i + 1].role = "agent"
              /\ conversationHistory[i + 1].exchange = conversationHistory[i].exchange

\* a history that has been trimmed
C5_Witness ==
    /\ Len(exchangeLog) > maxHistory
    /\ Len(conversationHistory) > 0
    /\ conversationHistory[1].exchange > 1

\* C6: getCachedEmail returns the cached digest, or null for an id that is
\* not cached, and leaves the cache as it is: same entries, same order, so
\* the same entry is next to be evicted.
C6_LookupStep ==
    ret'.op = "getCachedEmail" =>
        /\ emailCache' = emailCache
        /\ IF \E i \in 1..Len(emailCache) : emailCache[i].key = ret'.arg
           THEN \E i \in 1..Len(emailCache) :
                   emailCache[i].key = ret'.arg /\ ret'.value = emailCache[i].value
           ELSE ret'.value = Null

C6_LookupIsPure == [][C6_LookupStep]_vars

\* a hit on an entry that is not the newest one of a full cache
C6_Witness ==
    /\ ret.op = "getCachedEmail"
    /\ ret.value # Null
    /\ Len(emailCache) = maxCache
    /\ ret.value = emailCache[1].value
    /\ ret.value # emailCache[Len(emailCache)].value

\* C7: activeEmailIds never holds the same id twice.
C7_NoDuplicateActiveIds == NoDuplicates(activeEmailIds)

RECURSIVE AppendNew(_, _)
\* acc followed by the elements of new that are not yet in it, each once, in
\* the order of their first appearance
AppendNew(acc, new) ==
    IF Len(new) = 0 THEN acc
    ELSE AppendNew(IF \E i \in 1..Len(acc) : acc[i] = Head(new)
                   THEN acc ELSE Append(acc, Head(new)),
                   Tail(new))

\* C8 (one call): addActiveEmails keeps activeEmailIds as it is and appends
\* the ids not yet present, in the order of their first appearance in the
\* argument; setActiveEmails replaces activeEmailIds by the given ids, a
\* bare id counting as a one-element list.
C8_ActiveStep ==
    \A ids \in IdsArgs :
        /\ addActiveEmails(ids) =>
               activeEmailIds' = AppendNew(activeEmailIds,
                                           IF ids.isArray THEN ids.items ELSE <<ids.item>>)
        /\ setActiveEmails(ids) =>
               activeEmailIds' = (IF ids.isArray THEN ids.items ELSE <<ids.item>>)

\* C8: addActiveEmails is append-only and setActiveEmails is replace.
C8_AppendAndReplace == [][C8_ActiveStep]_vars

RECURSIVE DigestsOf(_, _)
\* the cached digests of the ids of a list, in list order, skipping ids that
\* are not cached
DigestsOf(ids, m) ==
    IF Len(ids) = 0 THEN <<>>
    ELSE LET hit == {i \in 1..Len(m) : m[i].key = Head(ids)}
         IN  (IF hit = {} THEN <<>> ELSE << m[CHOOSE i \in hit : TRUE].value >>)
             \o DigestsOf(Tail(ids), m)

\* C9 (one call): getActiveDigests returns, in activeEmailIds order, the
\* cached digests of the active ids that are cached, nothing for the others,
\* and changes neither activeEmailIds nor the cache.
C9_ActiveDigestsStep ==
    ret'.op = "getActiveDigests" =>
        /\ ret'.value = DigestsOf(activeEmailIds, emailCache)
        /\ \A i \in 1..Len(ret'.value) : ret'.value[i] \in Digests
        /\ activeEmailIds' = activeEmailIds
        /\ emailCache' = emailCache

\* C9: getActiveDigests maps the active ids through the cache and silently
\* drops the ids that are not cached, which stay in activeEmailIds.
C9_MissingIdsDropped == [][C9_ActiveDigestsStep]_vars

\* getActiveDigests found one active id cached and dropped another one that
\* had been cached and was evicted; the dropped id is still active
C9_Witness ==
    /\ ret.op = "getActiveDigests"
    /\ Len(ret.value) >= 1
    /\ Len(ret.value) < Len(activeEmailIds)
    /\ cacheLog.distinct
    /\ \E i \in 1..Len(activeEmailIds) :
          /\ ~MapHas(emailCache, activeEmailIds[i])
          /\ \E j \in 1..Len(cacheLog.ids) : cacheLog.ids[j] = activeEmailIds[i]

\* C10: getContextForLLM returns "" exactly when no active id is cached and
\* the history is empty.
C10_EmptyContext ==
    ret.op = "getContextForLLM" =>
        (ret.value = ""
            <=> /\ \A i \in 1..Len(activeEmailIds) :
                      \A j \in 1..Len(emailCache) : emailCache[j].key # activeEmailIds[i]
                /\ Len(conversationHistory) = 0)

\* the context is empty although ids are active: none of them is cached
C10_Witness ==
    /\ ret.op = "getContextForLLM"
    /\ ret.value = ""
    /\ Len(activeEmailIds) > 0

\* C11 (state): right after clear() the cache, activeEmailIds and the history
\* are empty.
C11_ClearedState ==
    ret.op = "clear" =>
        /\ Len(emailCache) = 0
        /\ Len(activeEmailIds) = 0
        /\ Len(conversationHistory) = 0

\* C11 (next call): getContextForLLM called right after clear() returns "".
C11_RenderAfterClear ==
    (ret.op = "clear" /\ ret'.op = "getContextForLLM") => ret'.value = ""

\* C11: clear() empties the cache, activeEmailIds and the history, and the
\* context rendered right after it is the empty string.
C11_ClearEmptiesStore == [](C11_ClearedState) /\ [][C11_RenderAfterClear]_vars

\* clear() has discarded cached digests, active ids and history entries
C11_Witness ==
    /\ ret.op = "clear"
    /\ ret.dropped >= 3
    /\ Len(emailCache) + Len(activeEmailIds) + Len(conversationHistory) = 0

\* an entry as getContextForLLM prints it: content of more than 150
\* characters is cut to its first 147 followed by "..."
PrintedTurn(e) ==
    e.role \o ": " \o (IF Len(e.content) <= 150
                       THEN e.content
                       ELSE SubSeq(e.content, 1, 147) \o "...")

RECURSIVE PrintedTurns(_, _)
\* the lines of entries from..Len(h) of h, each preceded by a newline
PrintedTurns(h, from) ==
    IF from > Len(h) THEN ""
    ELSE "\n" \o PrintedTurn(h[from]) \o PrintedTurns(h, from + 1)

EndsWith(str, suffix) ==
    /\ Len(suffix) <= Len(str)
    /\ SubSeq(str, Len(str) - Len(suffix) + 1, Len(str)) = suffix

\* C12: with a non-empty history the rendered context ends with the header
\* "RECENT CONVERSATION:" followed by exactly the last min(6, |history|)
\* entries, oldest first, one per line as "role: content", content longer
\* than 150 characters cut to 147 characters plus "...".
C12_RecentConversation ==
    (ret.op = "getContextForLLM" /\ Len(conversationHistory) > 0) =>
        LET n == IF Len(conversationHistory) < 6 THEN Len(conversationHistory) ELSE 6
        IN  EndsWith(ret.value,
                     "\nRECENT CONVERSATION:"
                        \o PrintedTurns(conversationHistory, Len(conversationHistory) - n + 1))

\* a rendering of a history of more than 6 entries, with an entry of exactly
\* 150 characters and one of more than 150 among the last 6
C12_Witness ==
    /\ ret.op = "getContextForLLM"
    /\ Len(conversationHistory) > 6
    /\ \E i \in (Len(conversationHistory) - 5)..Len(conversationHistory) :
           Len(conversationHistory[i].content) = 150
    /\ \E i \in (Len(conversationHistory) - 5)..Len(conversationHistory) :
           Len(conversationHistory[i].content) > 150

----------------------------------------------------------------------------
(***************************************************************************)
(* The digest pipeline (src/email-processor.js).                           *)
(*                                                                         *)
(* JS regular expressions are modelled by a backtracking matcher over a    *)
(* syntax tree.  A node is one of                                          *)
(*   [t |-> "chr", neg, set]   a character class ([...] or [^...])         *)
(*   [t |-> "lit", text]       literal text                                *)
(*   [t |-> "seq", xs]         concatenation                               *)
(*   [t |-> "alt", xs]         alternation, tried left to right            *)
(*   [t |-> "rep", x, min, max]  greedy quantifier, max = -1 is unbounded  *)
(*   [t |-> "wb"], [t |-> "bol"], [t |-> "eol"]   \b, ^ and $ (flag m)     *)
(*   [t |-> "adv", from]       internal: an iteration must consume input   *)
(* Positions are 1-based; a match is the pair of its first position and    *)
(* the position after its last character.                                  *)
(***************************************************************************)

Ch(str, i) == SubSeq(str, i, i)

LowerLetters == "abcdefghijklmnopqrstuvwxyz"

UpperLetters == "ABCDEFGHIJKLMNOPQRSTUVWXYZ"

Digits == {"0", "1", "2", "3", "4", "5", "6", "7", "8", "9"}

Letters == {Ch(LowerLetters, k) : k \in 1..26} \cup {Ch(UpperLetters, k) : k \in 1..26}

\* \w, \s and the complement of "."
WordChars == Letters \cup Digits \cup {"_"}

SpaceChars == {" ", "\t", "\n", "\r", "\f"}

LineEnds == {"\n", "\r"}

lowerOf == [c \in {Ch(UpperLetters, k) : k \in 1..26} |->
               Ch(LowerLetters, CHOOSE k \in 1..26 : Ch(UpperLetters, k) = c)]

upperOf == [c \in {Ch(LowerLetters, k) : k \in 1..26} |->
               Ch(UpperLetters, CHOOSE k \in 1..26 : Ch(LowerLetters, k) = c)]

toLowerChar(c) == IF c \in DOMAIN lowerOf THEN lowerOf[c] ELSE c

toUpperChar(c) == IF c \in DOMAIN upperOf THEN upperOf[c] ELSE c

(* pattern constructors *)

In(set) == [t |-> "chr", neg |-> FALSE, set |-> set]

NotIn(set) == [t |-> "chr", neg |-> TRUE, set |-> set]

Cat(xs) == [t |-> "seq", xs |-> xs]

Or(xs) == [t |-> "alt", xs |-> xs]

Rep(x, min, max) == [t |-> "rep", x |-> x, min |-> min, max |-> max]

Star(x) == Rep(x, 0, -1)

Plus(x) == Rep(x, 1, -1)

Opt(x) == Rep(x, 0, 1)

WordBoundary == [t |-> "wb"]

LineStart == [t |-> "bol"]

LineEnd == [t |-> "eol"]

\* a literal string
Lit(str) == [t |-> "lit", text |-> str]

\* w1|w2|...
Words(ws) == Or([k \in 1..Len(ws) |-> Lit(ws[k])])

AnyChar == NotIn(LineEnds)

Digit == In(Digits)

WordChar == In(WordChars)

Space == In(SpaceChars)

(* the matcher *)

classHas(n, c, ignoreCase) ==
    LET member == IF ignoreCase
                  THEN toLowerChar(c) \in n.set \/ toUpperChar(c) \in n.set
                  ELSE c \in n.set
    IN  member # n.neg

\* text stands at position i of str
litAt(text, str, i, ignoreCase) ==
    /\ i + Len(text) - 1 <= Len(str)
    /\ \A k \in 1..Len(text) :
          IF ignoreCase THEN toLowerChar(Ch(text, k)) = toLowerChar(Ch(str, i + k - 1))
          ELSE Ch(text, k) = Ch(str, i + k - 1)

isWordAt(str, i) == i >= 1 /\ i <= Len(str) /\ Ch(str, i) \in WordChars

\* how many characters from position i on are in class x, counting to limit
runLength(x, str, i, limit, ignoreCase) ==
    CHOOSE c \in 0..limit :
        /\ c = limit \/ ~classHas(x, Ch(str, i + c), ignoreCase)
        /\ \A d \in 0..(c - 1) : classHas(x, Ch(str, i + d), ignoreCase)

\* f(x), with x evaluated before f is entered
Eager(f(_), x) == CHOOSE out \in {f(v) : v \in {x}} : TRUE

\* what a backtracking matcher tries, in this order, for node n at position
\* i of str when the nodes of rest follow: each entry is the nodes still to
\* match and the position to match them at
branches(n, rest, str, i, ignoreCase) ==
    LET on == << [stack |-> rest, i |-> i] >>
    IN  CASE n.t = "chr" ->
               IF i <= Len(str) /\ classHas(n, Ch(str, i), ignoreCase)
               THEN << [stack |-> rest, i |-> i + 1] >> ELSE <<>>
          [] n.t = "lit" ->
               IF litAt(n.text, str, i, ignoreCase)
               THEN << [stack |-> rest, i |-> i + Len(n.text)] >> ELSE <<>>
          [] n.t = "seq" -> << [stack |-> n.xs \o rest, i |-> i] >>
          [] n.t = "alt" ->
               \* the alternatives from left to right
               [k \in 1..Len(n.xs) |-> [stack |-> << n.xs[k] >> \o rest, i |-> i]]
          [] n.t = "rep" /\ n.x.t = "chr" ->
               \* greedy: the longest run of the class first, then shorter ones
               LET left == Len(str) - i + 1
                   limit == IF n.max = -1 THEN left ELSE Min(n.max, left)
               IN  Eager(LAMBDA run :
                             [k \in 1..(run - n.min + 1) |->
                                 [stack |-> rest, i |-> i + run - k + 1]],
                         runLength(n.x, str, i, limit, ignoreCase))
          [] n.t = "rep" /\ n.x.t # "chr" ->
               \* greedy: one more iteration first, then none
               LET again == Rep(n.x, Max(n.min - 1, 0), IF n.max = -1 THEN -1 ELSE n.max - 1)
               IN  (IF n.max = 0 THEN <<>>
                    ELSE << [stack |-> << n.x, [t |-> "adv", from |-> i], again >> \o rest,
                             i |-> i] >>)
                   \o (IF n.min = 0 THEN on ELSE <<>>)
          [] n.t = "adv" -> IF i > n.from THEN on ELSE <<>>
          [] n.t = "wb" -> IF isWordAt(str, i - 1) # isWordAt(str, i) THEN on ELSE <<>>
          [] n.t = "bol" -> IF i = 1 \/ Ch(str, i - 1) \in LineEnds THEN on ELSE <<>>
          [] n.t = "eol" -> IF i = Len(str) + 1 \/ Ch(str, i) \in LineEnds THEN on ELSE <<>>

\* the outcome of the first branch that matched: outcomes holds <<k, end>>
\* for every branch k, end = 0 for a branch that failed
firstMatch(outcomes) ==
    LET hits == {o \in outcomes : o[2] # 0}
    IN  IF hits = {} THEN 0
        ELSE (CHOOSE o \in hits : \A p \in hits : o[1] <= p[1])[2]

RECURSIVE matchAt(_, _, _, _)
\* the position after the match of the nodes of stack, in sequence, at
\* position i of str, found as a backtracking matcher finds it; 0 if none
matchAt(stack, str, i, ignoreCase) ==
    IF Len(stack) = 0 THEN i
    ELSE Eager(LAMBDA bs :
                   Eager(firstMatch,
                         {<< k, matchAt(bs[k].stack, str, bs[k].i, ignoreCase) >> :
                             k \in 1..Len(bs)}),
               branches(Head(stack), Tail(stack), str, i, ignoreCase))

\* the leftmost match from position p on; starts holds every position at
\* which the pattern matches
firstFrom(re, str, ignoreCase, starts, p) ==
    LET i == CHOOSE a \in starts : a >= p /\ \A b \in starts : b >= p => a <= b
    IN  [start |-> i, end |-> matchAt(<< re >>, str, i, ignoreCase)]

RECURSIVE walkMatches(_, _, _, _, _)
\* the successive matches of a global search: from position p on, the
\* leftmost match, then on from its end
walkMatches(re, str, ignoreCase, starts, p) ==
    IF \A i \in starts : i < p THEN <<>>
    ELSE Eager(LAMBDA m :
                   << m >> \o walkMatches(re, str, ignoreCase, starts,
                                          IF m.end = m.start THEN m.start + 1 ELSE m.end),
               firstFrom(re, str, ignoreCase, starts, p))

\* all matches of a /g pattern, left to right, as [start, end]
matchesOf(re, str, ignoreCase) ==
    Eager(LAMBDA starts : walkMatches(re, str, ignoreCase, starts, 1),
          {i \in 1..(Len(str) + 1) : matchAt(<< re >>, str, i, ignoreCase) # 0})

\* RegExp.prototype.test
test(re, str, ignoreCase) ==
    \E i \in 1..(Len(str) + 1) : matchAt(<< re >>, str, i, ignoreCase) # 0

\* the texts of the matches ms of str
textsOf(str, ms) == [k \in 1..Len(ms) |-> SubSeq(str, ms[k].start, ms[k].end - 1)]

\* String.prototype.match with a /g pattern: the matched texts (<<>> for null)
matchAll(re, str, ignoreCase) ==
    Eager(LAMBDA ms : textsOf(str, ms), matchesOf(re, str, ignoreCase))

\* the strings a[lo..hi] joined without separator
concat(a, lo, hi) ==
    LET cat[r \in (lo..hi) \X (lo..hi)] ==
            IF r[1] > r[2] THEN ""
            ELSE IF r[1] = r[2] THEN a[r[1]]
            ELSE cat[<< r[1], (r[1] + r[2]) \div 2 >>]
                 \o cat[<< (r[1] + r[2]) \div 2 + 1, r[2] >>]
    IN  IF lo > hi THEN "" ELSE cat[<< lo, hi >>]

\* the texts around the matches ms of str: before the first, between two, after the last
gapsOf(str, ms) ==
    [k \in 1..(Len(ms) + 1) |->
        SubSeq(str,
               IF k = 1 THEN 1 ELSE ms[k - 1].end,
               IF k > Len(ms) THEN Len(str) ELSE ms[k].start - 1)]

\* the strings of a joined, with by between them
joinedBy(a, by) ==
    concat([k \in 1..Len(a) |-> IF k < Len(a) THEN a[k] \o by ELSE a[k]], 1, Len(a))

\* String.prototype.replace with a /g pattern and a literal replacement
replaceAll(re, str, ignoreCase, by) ==
    Eager(LAMBDA ms : joinedBy(gapsOf(str, ms), by), matchesOf(re, str, ignoreCase))

\* String.prototype.split with a pattern that matches no empty string
split(re, str) ==
    IF Len(str) = 0 THEN << "" >>
    ELSE Eager(LAMBDA ms : gapsOf(str, ms), matchesOf(re, str, FALSE))

\* String.prototype.trim
strTrim(str) ==
    LET solid(i) == Ch(str, i) \notin SpaceChars
    IN  IF \A i \in 1..Len(str) : ~solid(i) THEN ""
        ELSE SubSeq(str,
                    CHOOSE i \in 1..Len(str) : solid(i) /\ \A j \in 1..(i - 1) : ~solid(j),
                    CHOOSE i \in 1..Len(str) : solid(i) /\ \A j \in (i + 1)..Len(str) : ~solid(j))

\* String.prototype.toLowerCase
toLowerCase(str) == concat([k \in 1..Len(str) |-> toLowerChar(Ch(str, k))], 1, Len(str))

----------------------------------------------------------------------------
(* optional strings: a header, body or snippet is absent (Undefined) or *)
(* [str |-> its text]                                                   *)

Str(text) == [str |-> text]

\* v || fallback, for an optional string v and a string fallback
orElse(v, fallback) == IF v = Undefined \/ v.str = "" THEN fallback ELSE v.str

\* Array.prototype.slice(0, n)
slice0(a, n) == SubSeq(a, 1, Min(n, Len(a)))

\* variant: nothing is removed
uniq_keepsAll(a) == a

RECURSIVE uniq(_)
\* [...new Set(a)]: the distinct elements of a, each at its first place
uniq(a) ==
    IF Len(a) = 0 THEN <<>>
    ELSE Eager(LAMBDA front :
                   IF \E k \in 1..Len(front) : front[k] = a[Len(a)] THEN front
                   ELSE Append(front, a[Len(a)]),
               uniq(SubSeq(a, 1, Len(a) - 1)))

----------------------------------------------------------------------------
(* cleanEmailBody(rawBody) *)

urlPattern ==
    Cat(<< Lit("http"), Opt(Lit("s")), Lit("://"),
           Plus(NotIn(SpaceChars \cup {")", ">", "]"})) >>)

\* <text>.*$
toLineEnd(x) == Cat(<< x, Star(AnyChar), LineEnd >>)

footerPatterns ==
    << toLineEnd(Lit("unsubscribe")),
       toLineEnd(Lit("you received this email because")),
       toLineEnd(Lit("to stop receiving")),
       toLineEnd(Lit("view this email in your browser")),
       toLineEnd(Lit("click here to unsubscribe")),
       toLineEnd(Lit("manage your preferences")),
       toLineEnd(Cat(<< Lit("privacy policy"), Star(AnyChar), Lit("terms of service") >>)),
       toLineEnd(Cat(<< Lit("©"), Star(Space), Rep(Digit, 4, 4) >>)),
       toLineEnd(Cat(<< Rep(Digit, 4, 4), Plus(Space),
                        Words(<< "amphitheatre", "street", "avenue", "road", "blvd" >>) >>)) >>

quotedPattern == Cat(<< LineStart, Lit(">"), Star(AnyChar), LineEnd >>)

wrotePattern ==
    Cat(<< Lit("on"), Plus(Space), Plus(WordChar), Lit(","), Plus(Space), Plus(WordChar),
           Plus(Space), Plus(Digit), Star(AnyChar), Lit("wrote:"), Star(AnyChar), LineEnd >>)

newlinesPattern == Rep(In({"\n"}), 3, -1)

blanksPattern == Rep(In({" ", "\t"}), 2, -1)

\* the replacements in the order the code makes them: every /g pattern with
\* its i flag and its replacement
replacements ==
    << [re |-> urlPattern, ignoreCase |-> TRUE, by |-> "[link]"] >>
    \o [k \in 1..Len(footerPatterns) |->
           [re |-> footerPatterns[k], ignoreCase |-> TRUE, by |-> ""]]
    \o << [re |-> quotedPattern, ignoreCase |-> FALSE, by |-> ""],
          [re |-> wrotePattern, ignoreCase |-> TRUE, by |-> ""],
          [re |-> newlinesPattern, ignoreCase |-> FALSE, by |-> "\n\n"],
          [re |-> blanksPattern, ignoreCase |-> FALSE, by |-> " "] >>

RECURSIVE replaceEach(_, _)
\* cleaned = cleaned.replace(pattern, by), for replacements k, k + 1, ... in turn
replaceEach(cleaned, k) ==
    IF k > Len(replacements) THEN cleaned
    ELSE Eager(LAMBDA next : replaceEach(next, k + 1),
               replaceAll(replacements[k].re, cleaned, replacements[k].ignoreCase,
                          replacements[k].by))

cleanEmailBody(rawBody) ==
    IF rawBody = "" THEN ""
    ELSE Eager(strTrim, replaceEach(rawBody, 1))

----------------------------------------------------------------------------
(* extractKeyInfo(cleanedBody) *)

monthName ==
    Cat(<< Words(<< "jan", "feb", "mar", "apr", "may", "jun",
                    "jul", "aug", "sep", "oct", "nov", "dec" >>), Star(WordChar) >>)

\* \s*,?\s*\d{2,4}\b
yearPart == Cat(<< Star(Space), Opt(Lit(",")), Star(Space), Rep(Digit, 2, 4), WordBoundary >>)

\* the pattern families, in the order the code applies them: [re, ignoreCase]
datePatterns ==
    << [re |-> Cat(<< WordBoundary, Rep(Digit, 1, 2), Plus(Space), monthName, yearPart >>),
        ignoreCase |-> TRUE],
       [re |-> Cat(<< WordBoundary, monthName, Plus(Space), Rep(Digit, 1, 2), yearPart >>),
        ignoreCase |-> TRUE],
       [re |-> Cat(<< WordBoundary, Rep(Digit, 1, 2), Lit("/"), Rep(Digit, 1, 2), Lit("/"),
                      Rep(Digit, 2, 4), WordBoundary >>),
        ignoreCase |-> FALSE],
       [re |-> Cat(<< WordBoundary,
                      Words(<< "monday", "tuesday", "wednesday", "thursday", "friday",
                               "saturday", "sunday" >>),
                      WordBoundary >>),
        ignoreCase |-> TRUE],
       [re |-> Cat(<< WordBoundary,
                      Words(<< "today", "tomorrow", "next week", "this week" >>),
                      WordBoundary >>),
        ignoreCase |-> TRUE] >>

\* (?:\.\d{2})?
centsPart == Opt(Cat(<< Lit("."), Rep(Digit, 2, 2) >>))

amountPattern ==
    Or(<< Cat(<< In({"₹", "$", "€", "£"}), Opt(Space), Plus(In(Digits \cup {","})), centsPart >>),
          Cat(<< Plus(Digit), Star(Cat(<< Lit(","), Rep(Digit, 3, 3) >>)), centsPart,
                 Opt(Space), Words(<< "USD", "INR", "EUR", "GBP" >>) >>) >>)

sentenceBreak == Plus(In({".", "!", "?", "\n"}))

actionKeywords ==
    Cat(<< WordBoundary,
           Words(<< "please", "kindly", "required", "must", "need to", "action", "deadline",
                    "respond", "reply", "confirm", "submit", "complete", "attend", "join",
                    "register", "rsvp" >>),
           WordBoundary >>)

\* a.map(s => s.trim())
trimEach(a) == [k \in 1..Len(a) |-> strTrim(a[k])]

RECURSIVE datesFrom(_, _)
\* for (const pattern of datePatterns) info.dates.push(...matches.map(m => m.trim()))
datesFrom(cleanedBody, k) ==
    IF k > Len(datePatterns) THEN <<>>
    ELSE Eager(trimEach, matchAll(datePatterns[k].re, cleanedBody, datePatterns[k].ignoreCase))
         \o datesFrom(cleanedBody, k + 1)

\* /^\[link\]/.test(s)
startsWithLink(s) == Len(s) >= 6 /\ SubSeq(s, 1, 6) = "[link]"

NoInfo == [dates |-> <<>>, amounts |-> <<>>, actionItems |-> <<>>, names |-> <<>>,
           keyPhrases |-> <<>>]

\* cleanedBody.split(/[.!?\n]+/).map(s => s.trim()).filter(s => s.length > 10)
sentencesOf(cleanedBody) ==
    LET hasLength(s) == Len(s) > 10
    IN  SelectSeq(Eager(trimEach, split(sentenceBreak, cleanedBody)), hasLength)

extractKeyInfo(cleanedBody) ==
    IF cleanedBody = "" THEN NoInfo
    ELSE LET isAction(s) == test(actionKeywords, s, TRUE)
             isSubstantive(s) == Len(s) > 20 /\ Len(s) < 200
             isText(s) == ~startsWithLink(s)
         IN  Eager(LAMBDA sentences :
                       [dates |-> slice0(uniq(datesFrom(cleanedBody, 1)), 5),
                        amounts |-> slice0(uniq(matchAll(amountPattern, cleanedBody, TRUE)), 5),
                        actionItems |-> slice0(SelectSeq(sentences, isAction), 5),
                        names |-> <<>>,
                        keyPhrases |->
                            slice0(SelectSeq(SelectSeq(sentences, isSubstantive), isText), 3)],
                   sentencesOf(cleanedBody))

----------------------------------------------------------------------------
(* classifyEmail(headers, cleanedBody) *)

bulkWords ==
    Words(<< "noreply", "no-reply", "newsletter", "marketing", "promo", "offer", "sale",
             "discount", "deal", "unsubscribe" >>)

priceWords ==
    Words(<< "off", "%", "discount", "sale", "deal", "coupon", "offer", "price", "save" >>)

securityWords ==
    Words(<< "alert", "security", "verification", "verify", "password", "signin", "login",
             "suspicious", "unusual" >>)

transactionWords ==
    Words(<< "invoice", "payment", "receipt", "order", "transaction", "billing",
             "subscription" >>)

eventWords ==
    Words(<< "meeting", "invite", "calendar", "event", "rsvp", "attend", "join", "webinar",
             "summit", "conference" >>)

notificationWords == Words(<< "notification", "update", "reminder", "notice" >>)

developmentWords ==
    Words(<< "github", "gitlab", "jenkins", "deploy", "build", "commit", "pull request",
             "merge" >>)

\* variant: no rule matched, and no category is left
classOf_noDefault(combined) ==
    IF test(bulkWords, combined, TRUE)
    THEN IF test(priceWords, combined, TRUE) THEN "promotional" ELSE "newsletter"
    ELSE IF test(securityWords, combined, TRUE) THEN "security"
    ELSE IF test(transactionWords, combined, TRUE) THEN "transactional"
    ELSE IF test(eventWords, combined, TRUE) THEN "event"
    ELSE IF test(notificationWords, combined, TRUE) THEN "notification"
    ELSE IF test(developmentWords, combined, TRUE) THEN "development"
    ELSE "other"

\* variant: the transaction rule comes before the security rule
classOf_transactionFirst(combined) ==
    IF test(bulkWords, combined, TRUE)
    THEN IF test(priceWords, combined, TRUE) THEN "promotional" ELSE "newsletter"
    ELSE IF test(transactionWords, combined, TRUE) THEN "transactional"
    ELSE IF test(securityWords, combined, TRUE) THEN "security"
    ELSE IF test(eventWords, combined, TRUE) THEN "event"
    ELSE IF test(notificationWords, combined, TRUE) THEN "notification"
    ELSE IF test(developmentWords, combined, TRUE) THEN "development"
    ELSE "personal"

\* the rules, applied to the lower-cased text of sender, subject and body
classOf(combined) ==
    IF test(bulkWords, combined, TRUE)
    THEN IF test(priceWords, combined, TRUE) THEN "promotional" ELSE "newsletter"
    ELSE IF test(securityWords, combined, TRUE) THEN "security"
    ELSE IF test(transactionWords, combined, TRUE) THEN "transactional"
    ELSE IF test(eventWords, combined, TRUE) THEN "event"
    ELSE IF test(notificationWords, combined, TRUE) THEN "notification"
    ELSE IF test(developmentWords, combined, TRUE) THEN "development"
    ELSE "personal"

classifyEmail(headers, cleanedBody) ==
    LET from == toLowerCase(orElse(headers.from, ""))
        subject == toLowerCase(orElse(headers.subject, ""))
        body == toLowerCase(cleanedBody)
    IN  Eager(classOf, from \o " " \o subject \o " " \o body)

----------------------------------------------------------------------------
(* buildDigest(emailContent) *)

\* variant: the cut keeps 400 characters before the ellipsis
capSummary_keeps400(summary) ==
    IF Len(summary) > 400 THEN substring0(summary, 400) \o "..." ELSE summary

\* if (summary.length > 400) summary = summary.substring(0, 397) + '...'
capSummary(summary) ==
    IF Len(summary) > 400 THEN substring0(summary, 397) \o "..." ELSE summary

\* the summary before the cut
pickSummary(keyInfo, cleanedBody, snippet) ==
    IF Len(keyInfo.keyPhrases) > 0 THEN join(keyInfo.keyPhrases, ". ")
    ELSE IF cleanedBody # "" THEN substring0(cleanedBody, 300)
    ELSE orElse(snippet, "No readable content")

\* variant: the flag follows the key phrases
actionRequired_keyPhrases(keyInfo) == Len(keyInfo.keyPhrases) > 0

\* actionRequired: keyInfo.actionItems.length > 0
actionRequired(keyInfo) == Len(keyInfo.actionItems) > 0

\* the call's outcome: the digest it returns, or the TypeError that reading a
\* field of absent headers throws; cleanedBody and keyInfo are history
\* fields, the intermediate values the digest was made from
\* the digest object of lines 141-154, with the summary
digestOf(content, cleanedBody, keyInfo) ==
    [from |-> orElse(content.headers.from, "Unknown"),
     to |-> orElse(content.headers.to, ""),
     subject |-> orElse(content.headers.subject, "No Subject"),
     date |-> orElse(content.headers.date, ""),
     type |-> classifyEmail(content.headers, cleanedBody),
     summary |-> Eager(capSummary, pickSummary(keyInfo, cleanedBody, content.snippet)),
     keyPoints |-> keyInfo.keyPhrases,
     actionItems |-> keyInfo.actionItems,
     dates |-> keyInfo.dates,
     amounts |-> keyInfo.amounts,
     actionRequired |-> actionRequired(keyInfo),
     fullBodyLength |-> Len(orElse(content.body, ""))]

\* the call's outcome: the digest it returns, or the TypeError that reading a
\* field of absent headers throws; cleanedBody and keyInfo are history
\* fields, the intermediate values the digest was made from
buildDigest(content) ==
    IF content.headers = Undefined
    THEN [op |-> "buildDigest", threw |-> TRUE, error |-> "TypeError"]
    ELSE Eager(LAMBDA cleanedBody :
                   Eager(LAMBDA keyInfo :
                             [op |-> "buildDigest", threw |-> FALSE,
                              cleanedBody |-> cleanedBody, keyInfo |-> keyInfo,
                              value |-> digestOf(content, cleanedBody, keyInfo)],
                         extractKeyInfo(cleanedBody)),
               cleanEmailBody(orElse(content.body, orElse(content.snippet, ""))))

----------------------------------------------------------------------------
(* the messages the pipeline is run on *)

NoHeaders == [from |-> Undefined, to |-> Undefined, subject |-> Undefined, date |-> Undefined]

HeaderSamples ==
    { Undefined,
      NoHeaders,
      [from |-> Str("Priya <priya@example.com>"), to |-> Str("me@example.com"),
       subject |-> Str("Lunch on Friday?"), date |-> Str("Mon, 3 Mar 2025 10:00:00 +0530")],
      [from |-> Str("noreply@shop.example"), to |-> Undefined,
       subject |-> Str("50% off this week"), date |-> Str("")],
      [from |-> Str(""), to |-> Str(""), subject |-> Str(""), date |-> Undefined] }

\* three sentences of the given lengths
ThreeSentences(a, b, c) ==
    "A" \o repeat("a", a - 1) \o ". B" \o repeat("b", b - 1) \o ". C" \o repeat("c", c - 1) \o "."

BodySamples ==
    { Undefined,
      Str(""),
      \* nothing is left of it after cleaning
      Str("Unsubscribe here: https://shop.example/u?id=7"),
      Str("Invoice #123 due $250.00 by 3/15/2025"),
      \* a weekday before a numeric date
      Str("Please confirm by Friday. Call me Friday or on 3/15/2025 about the meeting tomorrow."),
      \* more than five dates and amounts, some of them repeated
      Str("Dates: 1/1/2025, 2/2/2025, 1/1/2025, 3 Mar 2025, April 4, 2025, today, Monday, today.\n"
          \o "Fees: $1, $2, $1, €30.50, 1,000.00 USD, 40 INR, £5, 40 inr."),
      \* more than five action sentences
      Str("Please reply to Asha. You must submit form A. Kindly attend the review. "
          \o "Register for the offsite today. Confirm your seat now! Join the call at noon? "
          \o "Respond before the deadline.\n> quoted line\nSee http://x.example/a  now."),
      \* key phrases that join to exactly 400, to 401 and to far more characters
      Str(ThreeSentences(132, 132, 132)),
      Str(ThreeSentences(133, 132, 132)),
      Str(ThreeSentences(180, 180, 180)),
      \* one long run of text with no sentence break
      Str(repeat("lorem ipsum ", 27)),
      \* a quoted first line that is indented, and blank lines in a row
      Str(" > Sent from my phone\n\n\n\nThanks, see you then.\n>> older text") }

SnippetSamples ==
    { Undefined,
      Str("Your order has shipped"),
      Str("Your order has shipped. Track it at https://t.example/1"),
      Str(repeat("snippet text ", 35)) }

\* bodies for which the snippet is consulted
BlankBodies == { Undefined, Str(""), Str("Unsubscribe here: https://shop.example/u?id=7") }

\* a message from a sender, with a subject and a body
Mail(from, subject, body) ==
    [headers |-> [from |-> Str(from), to |-> Str("me@example.com"),
                  subject |-> Str(subject), date |-> Str("")],
     body |-> Str(body), snippet |-> Undefined]

\* messages with the vocabulary of several rules of classifyEmail at once
RuleSamples ==
    { Mail("newsletter@news.example", "Weekly digest", "A security alert about your invoice."),
      Mail("deals@shop.example", "Flash sale", "Verify your payment for the meeting."),
      Mail("alerts@bank.example", "Payment alert", "Your meeting update is on github."),
      Mail("billing@shop.example", "Invoice for the meeting", "A reminder: the build is done."),
      Mail("Asha <asha@example.com>", "Meeting reminder", "We deploy after it."),
      Mail("ci@example.com", "Build update", "The merge is done."),
      Mail("ci@gitlab.example", "Pipeline passed", "Commit 4f2a is live."),
      Mail("Asha <asha@example.com>", "Hello", "How are you?") }

Emails ==
    { [headers |-> h, body |-> b, snippet |-> Undefined] : h \in HeaderSamples, b \in BodySamples }
    \cup { [headers |-> h, body |-> b, snippet |-> sn] :
               h \in HeaderSamples, b \in BlankBodies, sn \in SnippetSamples }
    \cup RuleSamples

----------------------------------------------------------------------------
(* the pipeline run on one message after another *)

InitDigest ==
    /\ emailCache = <<>>
    /\ activeEmailIds = <<>>
    /\ conversationHistory = <<>>
    /\ ret = Void
    /\ cacheLog = NoInserts
    /\ exchangeLog = <<>>
    /\ emailContent \in Emails
    /\ result = Null
    /\ requests = <<>>
    /\ reads = <<>>
    /\ fetchLog = <<>>

\* const digest = buildDigest(emailContent)
buildDigestCall ==
    /\ result = Null
    /\ result' = buildDigest(emailContent)
    /\ UNCHANGED <<emailContent, emailCache, activeEmailIds, conversationHistory, ret,
                   cacheLog, exchangeLog, serverVars>>

\* the next message arrives
nextEmail ==
    /\ result # Null
    /\ emailContent' \in Emails
    /\ result' = Null
    /\ UNCHANGED <<emailCache, activeEmailIds, conversationHistory, ret,
                   cacheLog, exchangeLog, serverVars>>

NextDigest ==
    \/ buildDigestCall
    \/ nextEmail

SpecDigest == InitDigest /\ [][NextDigest]_vars

----------------------------------------------------------------------------
(* Properties of the digest pipeline, stated of SpecDigest *)

\* buildDigest was called on emailContent and returned a digest
Built == result # Null /\ ~result.threw

\* C17: for every message the summary of the digest has at most 400
\* characters, whichever of the three sources it was taken from; it is the
\* chosen text itself when that has at most 400 characters, and else the
\* first 397 characters of the chosen text followed by "..."
C17_SummaryCapped ==
    Built =>
        LET chosen == pickSummary(result.keyInfo, result.cleanedBody, emailContent.snippet)
            summary == result.value.summary
        IN  /\ Len(summary) <= 400
            /\ Len(chosen) <= 400 => summary = chosen
            /\ Len(chosen) > 400 => summary = SubSeq(chosen, 1, 397) \o "..."

\* key phrases that join to more than 400 characters were cut to 400
C17_Witness ==
    /\ Built
    /\ Len(result.keyInfo.keyPhrases) > 0
    /\ Len(join(result.keyInfo.keyPhrases, ". ")) > 400
    /\ Len(result.value.summary) = 400

\* C18: extractKeyInfo returns at most 5 dates, 5 amounts and 5 action
\* items and at most 3 key phrases, and no string twice in dates or in amounts
C18_ListsCapped ==
    Built =>
        /\ Len(result.keyInfo.dates) <= 5
        /\ Len(result.keyInfo.amounts) <= 5
        /\ Len(result.keyInfo.actionItems) <= 5
        /\ Len(result.keyInfo.keyPhrases) <= 3
        /\ NoDuplicates(result.keyInfo.dates)
        /\ NoDuplicates(result.keyInfo.amounts)

\* a body with more than 5 date matches and more than 5 amount matches,
\* with repeated ones among the amounts
C18_Witness ==
    /\ Built
    /\ Len(datesFrom(result.cleanedBody, 1)) > 5
    /\ Len(matchAll(amountPattern, result.cleanedBody, TRUE)) > 5
    /\ ~NoDuplicates(matchAll(amountPattern, result.cleanedBody, TRUE))
    /\ Len(result.keyInfo.dates) = 5
    /\ Len(result.keyInfo.amounts) = 5

\* every match of every date pattern in body: where it starts, which
\* pattern found it, and its text
DateMatches(body) ==
    UNION { LET ms == matchesOf(datePatterns[k].re, body, datePatterns[k].ignoreCase)
            IN  { [start |-> ms[j].start, family |-> k,
                   text |-> strTrim(SubSeq(body, ms[j].start, ms[j].end - 1))] :
                  j \in 1..Len(ms) } :
            k \in 1..Len(datePatterns) }

RECURSIVE InTextOrder(_)
\* the texts of a set of matches, by position in the text
InTextOrder(ms) ==
    IF ms = {} THEN <<>>
    ELSE LET m == CHOOSE x \in ms : \A y \in ms :
                      x.start < y.start \/ (x.start = y.start /\ x.family <= y.family)
         IN  << m.text >> \o InTextOrder(ms \ {m})

\* C19: the dates of extractKeyInfo, which the digest stores, are the
\* distinct matched date strings in the order of their first occurrence in
\* the text, whichever pattern matched each, cut to the first 5
C19_DatesInTextOrder ==
    Built =>
        /\ result.keyInfo.dates = slice0(uniq(InTextOrder(DateMatches(result.cleanedBody))), 5)
        /\ result.value.dates = result.keyInfo.dates

\* C20: in every digest buildDigest returns, actionRequired is true exactly
\* when actionItems is not empty
C20_ActionRequired ==
    Built => (result.value.actionRequired <=> Len(result.value.actionItems) > 0)

\* a digest with action items, and key phrases besides
C20_Witness ==
    /\ Built
    /\ result.value.actionRequired
    /\ Len(result.value.actionItems) > 0
    /\ Len(result.value.keyPoints) > 0

----------------------------------------------------------------------------
(***************************************************************************)
(* The server: POST /api/message (src/web-server.js) calls handleQuery     *)
(* (agent.js), which calls the agent; the agent calls the read_email tool. *)
(* Node runs each piece of code between two awaits as one step, so a       *)
(* request or a tool call is a process whose pc names the await it is      *)
(* suspended at, and the steps of different processes interleave.          *)
(***************************************************************************)

MaxRequests == 1

MaxReads == 2

\* requests and tool calls, numbered in the order they arrive
RequestIds == 1..MaxRequests

ReadIds == 1..MaxReads

\* req.body.query and req.body.resume
Queries == {Undefined, Str("what about the invoice?")}

Resumes == {Undefined, [interruptId |-> "int-1", decision |-> "approve"]}

\* the last message of the agent's answer: 305 characters
Reply == "The invoice is due on 3/15/2025. " \o repeat("Pay at the desk. ", 16)

\* String(err) of what agent.invoke throws
Errors ==
    { "Error: 429 Too Many Requests",
      "Error: rate_limit_exceeded, please try again in 2.5s",
      "Error: socket hang up" }

\* how agent.invoke ends: with the state of the graph, which holds its
\* messages, or with an error
AgentOutcomes ==
    { [kind |-> "returns", response |-> [messages |-> << [role |-> "assistant", content |-> Reply] >>]],
      [kind |-> "returns", response |-> [messages |-> << [role |-> "assistant", content |-> ""] >>]] }
    \cup { [kind |-> "throws", error |-> e] : e \in Errors }

\* what getEmailContent returns for the ids the agent reads
Inbox ==
    [id \in FocusIds |->
        IF id = "m1"
        THEN [headers |-> [from |-> Str("billing@shop.example"), to |-> Str("me@example.com"),
                           subject |-> Str("Invoice #123"), date |-> Str("Mon, 3 Mar 2025")],
              body |-> Str("Invoice #123 due $250.00 by 3/15/2025"),
              snippet |-> Str("Invoice #123 due")]
        ELSE [headers |-> [from |-> Str("Priya <priya@example.com>"), to |-> Str("me@example.com"),
                           subject |-> Str("Lunch on Friday?"), date |-> Str("")],
              body |-> Str("Please confirm by Friday."),
              snippet |-> Str("Please confirm")]]

\* buildDigest(emailContent) for each of them
InboxDigests == [id \in FocusIds |-> buildDigest(Inbox[id]).value]

\* the store after earlier reads have filled the cache
PriorIds == << "p1", "p2", "p3", "p4" >>

PriorCache == [i \in 1..maxCache |-> [key |-> PriorIds[i], value |-> DigestSparse]]

NoRequest ==
    [pc |-> "idle", query |-> Undefined, resume |-> Undefined, attempt |-> 0,
     waitSec |-> 0, enriched |-> "", sent |-> Undefined,
     status |-> 0, body |-> Undefined,
     \* history fields: handleQuery calls made, backoff waits completed, String(err)
     \* of every error caught, and what getContextForLLM() gave when handleQuery ran
     \* and the exchanges it recorded
     calls |-> 0, waits |-> 0, errors |-> <<>>, rendered |-> "", exchanges |-> 0]

NoRead ==
    [pc |-> "idle", messageId |-> "", request |-> 0, returned |-> Undefined,
     \* history field: getCachedEmail found the digest
     hit |-> FALSE]

InitServer ==
    /\ emailCache \in {<<>>, PriorCache}
    /\ activeEmailIds = MapKeys(emailCache)
    /\ conversationHistory = <<>>
    /\ ret = Void
    /\ cacheLog = [distinct |-> TRUE, ids |-> MapKeys(emailCache)]
    /\ exchangeLog = <<>>
    /\ emailContent = Null
    /\ result = Null
    /\ requests = [r \in RequestIds |-> NoRequest]
    /\ reads = [t \in ReadIds |-> NoRead]
    /\ fetchLog = MapKeys(emailCache)

\* !v, for an optional string
isFalsy(v) == v = Undefined \/ v = Str("")

\* String.prototype.includes
includes(str, part) ==
    \E i \in 1..(Len(str) - Len(part) + 1) : SubSeq(str, i, i + Len(part) - 1) = part

----------------------------------------------------------------------------
(* POST /api/message *)

\* variant: every error counts as a rate limit
isRateLimit_any(errStr) == Len(errStr) >= 0

isRateLimit(errStr) == includes(errStr, "429") \/ includes(errStr, "rate_limit")

\* /try again in ([\d.]+)s/i
waitPattern == Cat(<< Lit("try again in "), Plus(In(Digits \cup {"."})), Lit("s") >>)

RECURSIVE toNumber(_)
\* the number written by a string of digits ("" is 0)
toNumber(digits) ==
    IF Len(digits) = 0 THEN 0
    ELSE 10 * toNumber(SubSeq(digits, 1, Len(digits) - 1))
         + (CHOOSE d \in 0..9 : ToString(d) = Ch(digits, Len(digits)))

\* Math.ceil(parseFloat(text)) for a text of digits and dots; -1 stands for NaN
ceilOf(text) ==
    LET whole == runLength(Digit, text, 1, Len(text), FALSE)
        decimals == IF whole < Len(text)
                    THEN runLength(Digit, text, whole + 2, Len(text) - whole - 1, FALSE)
                    ELSE 0
        fraction == SubSeq(text, whole + 2, whole + 1 + decimals)
    IN  IF whole = 0 /\ decimals = 0 THEN -1
        ELSE toNumber(SubSeq(text, 1, whole))
             + (IF \E k \in 1..Len(fraction) : Ch(fraction, k) # "0" THEN 1 ELSE 0)

\* waitMatch ? Math.ceil(parseFloat(waitMatch[1])) + 1 : 15; -1 stands for NaN
waitSecOf(errStr) ==
    LET ms == matchesOf(waitPattern, errStr, TRUE)
    IN  IF Len(ms) = 0 THEN 15
        ELSE LET up == ceilOf(SubSeq(errStr, ms[1].start + 13, ms[1].end - 2))
             IN  IF up = -1 THEN -1 ELSE up + 1

\* the request arrives: 400 without query and resume
receive(r, query, resume) ==
    /\ requests[r].pc = "idle"
    /\ \A earlier \in 1..(r - 1) : requests[earlier].pc # "idle"
    /\ requests' =
           [requests EXCEPT ![r] =
               IF isFalsy(query) /\ resume = Undefined
               THEN [@ EXCEPT !.pc = "done", !.query = query, !.resume = resume,
                              !.status = 400,
                              !.body = [error |-> "Missing query or resume"]]
               ELSE [@ EXCEPT !.pc = "handleQuery", !.query = query, !.resume = resume]]
    /\ UNCHANGED <<emailCache, activeEmailIds, conversationHistory, ret, cacheLog,
                   exchangeLog, pipelineVars, reads, fetchLog>>

\* variant: the loop ends by throwing the last error
backoffElapsed_throws(r) ==
    /\ requests[r].pc = "backoff"
    /\ requests' =
           [requests EXCEPT ![r] =
               IF @.attempt + 1 < 3
               THEN [@ EXCEPT !.pc = "handleQuery", !.attempt = @ + 1, !.waits = @ + 1]
               ELSE [@ EXCEPT !.pc = "done", !.attempt = @ + 1, !.waits = @ + 1,
                              !.status = 500,
                              !.body = [ok |-> FALSE,
                                        error |-> requests[r].errors[Len(requests[r].errors)]]]]
    /\ UNCHANGED <<emailCache, activeEmailIds, conversationHistory, ret, cacheLog,
                   exchangeLog, pipelineVars, reads, fetchLog>>

\* the timer of the backoff fires: the loop goes on, or ends without a response
backoffElapsed(r) ==
    /\ requests[r].pc = "backoff"
    /\ requests' =
           [requests EXCEPT ![r] =
               IF @.attempt + 1 < 3
               THEN [@ EXCEPT !.pc = "handleQuery", !.attempt = @ + 1, !.waits = @ + 1]
               ELSE [@ EXCEPT !.pc = "done", !.attempt = @ + 1, !.waits = @ + 1,
                              !.status = 429,
                              !.body = [ok |-> FALSE,
                                        error |-> "⏳ Rate limit reached. Please wait a few seconds and try again."]]]
    /\ UNCHANGED <<emailCache, activeEmailIds, conversationHistory, ret, cacheLog,
                   exchangeLog, pipelineVars, reads, fetchLog>>

----------------------------------------------------------------------------
(* handleQuery(query, resume) *)

\* variant: the block is added whatever the context
enrichedQuery_always(query, resume, context) ==
    IF resume = Null /\ query # ""
    THEN "[CONTEXT]\n" \o context \o "\n[/CONTEXT]\n\nUser: " \o query
    ELSE query

enrichedQuery(query, resume, context) ==
    IF resume = Null /\ query # "" /\ context # ""
    THEN "[CONTEXT]\n" \o context \o "\n[/CONTEXT]\n\nUser: " \o query
    ELSE query

\* the first argument of agent.invoke
agentInput(enriched, resume) ==
    IF resume # Null
    THEN [command |-> [resume |-> [interruptId |-> resume.interruptId,
                                   decisions |-> << [type |-> resume.decision] >>]]]
    ELSE [messages |-> << [role |-> "user", content |-> enriched] >>]

\* handleQuery(query || '', resume || null), up to await agent.invoke
handleQueryCall(r) ==
    /\ requests[r].pc = "handleQuery"
    /\ LET query == orElse(requests[r].query, "")
           resume == IF requests[r].resume = Undefined THEN Null ELSE requests[r].resume
           context == getContextForLLMValue(emailCache, activeEmailIds, conversationHistory)
           enriched == enrichedQuery(query, resume, context)
       IN  requests' = [requests EXCEPT ![r] =
                           [@ EXCEPT !.pc = "invoke", !.calls = @ + 1,
                                     !.rendered = context, !.enriched = enriched,
                                     !.sent = agentInput(enriched, resume)]]
    /\ UNCHANGED <<emailCache, activeEmailIds, conversationHistory, ret, cacheLog,
                   exchangeLog, pipelineVars, reads, fetchLog>>

\* response.messages[response.messages.length - 1].content, "" when there is none
lastContent(response) ==
    IF response # Undefined /\ Len(response.messages) > 0
    THEN response.messages[Len(response.messages)].content
    ELSE ""

\* variant: the query is not looked at
recordsExchange_always(query, content) == content # ""

\* if (query && response?.messages?.length) ... if (lastMsg?.content)
recordsExchange(query, content) == query # "" /\ content # ""

\* the copy of the response that is sent: role and content of each message
safe(response) ==
    [messages |-> [i \in 1..Len(response.messages) |->
                      [role |-> response.messages[i].role,
                       content |-> response.messages[i].content]]]

\* agent.invoke ends, when the tool calls it made have returned; handleQuery
\* records the exchange and returns, or throws; the server answers or backs off
agentReturns(r, outcome) ==
    /\ requests[r].pc = "invoke"
    /\ \A t \in ReadIds : reads[t].request = r => reads[t].pc = "done"
    /\ IF outcome.kind = "returns"
       THEN LET query == orElse(requests[r].query, "")
                content == lastContent(outcome.response)
                n == Len(exchangeLog) + 1
                recorded == recordsExchange(query, content)
            IN  /\ IF recorded
                   THEN /\ conversationHistory' =
                               addExchangeHistory(conversationHistory, query,
                                                  substring0(content, 300), n)
                        /\ exchangeLog' =
                               Append(exchangeLog, turns(query, substring0(content, 300), n))
                   ELSE UNCHANGED <<conversationHistory, exchangeLog>>
                /\ requests' =
                       [requests EXCEPT ![r] =
                           IF outcome.response = Undefined
                           THEN [@ EXCEPT !.pc = "done", !.status = 429,
                                          !.body = [ok |-> FALSE,
                                                    error |-> "⏳ Rate limit reached. Please wait a few seconds and try again."]]
                           ELSE [@ EXCEPT !.pc = "done", !.status = 200,
                                          !.exchanges = IF recorded THEN @ + 1 ELSE @,
                                          !.body = [ok |-> TRUE,
                                                    response |-> safe(outcome.response)]]]
       ELSE /\ UNCHANGED <<conversationHistory, exchangeLog>>
            /\ requests' =
                   [requests EXCEPT ![r] =
                       IF isRateLimit(outcome.error)
                       THEN [@ EXCEPT !.pc = "backoff",
                                      !.errors = Append(@, outcome.error),
                                      !.waitSec = waitSecOf(outcome.error)]
                       ELSE [@ EXCEPT !.pc = "done",
                                      !.errors = Append(@, outcome.error),
                                      !.status = 500,
                                      !.body = [ok |-> FALSE, error |-> outcome.error]]]
    /\ UNCHANGED <<emailCache, activeEmailIds, ret, cacheLog, pipelineVars, reads, fetchLog>>

----------------------------------------------------------------------------
(* read_email({ messageId }) *)

\* what the tool returns, before JSON.stringify
Success(email) == [success |-> TRUE, email |-> email]

Failure(message) == [error |-> message]

\* variant: a hit stores the digest again
readEmailCall_recache(t, r, messageId) ==
    /\ reads[t].pc = "idle"
    /\ \A earlier \in 1..(t - 1) : reads[earlier].pc # "idle"
    /\ requests[r].pc = "invoke"
    /\ LET cached == getCachedEmailValue(emailCache, messageId)
       IN  IF Truthy(cached)
           THEN /\ activeEmailIds' =
                       addActiveEmailsIds(activeEmailIds, [isArray |-> FALSE, item |-> messageId])
                /\ emailCache' = cacheEmailMap(emailCache, messageId, cached)
                /\ reads' = [reads EXCEPT ![t] =
                                 [@ EXCEPT !.pc = "done", !.messageId = messageId,
                                           !.request = r, !.hit = TRUE,
                                           !.returned = Success(cached)]]
           ELSE /\ UNCHANGED <<activeEmailIds, emailCache>>
                /\ reads' = [reads EXCEPT ![t] =
                                 [@ EXCEPT !.pc = "getGmailClient", !.messageId = messageId,
                                           !.request = r]]
    /\ UNCHANGED <<conversationHistory, ret, cacheLog, exchangeLog,
                   pipelineVars, requests, fetchLog>>

\* the agent, at work for request r, calls the tool: a cached digest is
\* returned at once, else the tool waits for the mailbox client
readEmailCall(t, r, messageId) ==
    /\ reads[t].pc = "idle"
    /\ \A earlier \in 1..(t - 1) : reads[earlier].pc # "idle"
    /\ requests[r].pc = "invoke"
    /\ LET cached == getCachedEmailValue(emailCache, messageId)
       IN  IF Truthy(cached)
           THEN /\ activeEmailIds' =
                       addActiveEmailsIds(activeEmailIds, [isArray |-> FALSE, item |-> messageId])
                /\ reads' = [reads EXCEPT ![t] =
                                 [@ EXCEPT !.pc = "done", !.messageId = messageId,
                                           !.request = r, !.hit = TRUE,
                                           !.returned = Success(cached)]]
           ELSE /\ UNCHANGED activeEmailIds
                /\ reads' = [reads EXCEPT ![t] =
                                 [@ EXCEPT !.pc = "getGmailClient", !.messageId = messageId,
                                           !.request = r]]
    /\ UNCHANGED <<emailCache, conversationHistory, ret, cacheLog, exchangeLog,
                   pipelineVars, requests, fetchLog>>

\* getGmailClient() ends: the fetch is sent, or the error is returned
gmailClientReady(t, ok) ==
    /\ reads[t].pc = "getGmailClient"
    /\ IF ok
       THEN /\ fetchLog' = Append(fetchLog, reads[t].messageId)
            /\ reads' = [reads EXCEPT ![t] = [@ EXCEPT !.pc = "getEmailContent"]]
       ELSE /\ UNCHANGED fetchLog
            /\ reads' = [reads EXCEPT ![t] =
                             [@ EXCEPT !.pc = "done",
                                       !.returned = Failure("No credentials")]]
    /\ UNCHANGED <<emailCache, activeEmailIds, conversationHistory, ret, cacheLog,
                   exchangeLog, pipelineVars, requests>>

\* getEmailContent() ends: the digest is built, cached and put in focus, or
\* the error is returned
emailContentArrives(t, ok) ==
    /\ reads[t].pc = "getEmailContent"
    /\ IF ok
       THEN LET messageId == reads[t].messageId
                digest == InboxDigests[messageId]
            IN  /\ emailCache' = cacheEmailMap(emailCache, messageId, digest)
                /\ cacheLog' = logInsert(cacheLog, messageId)
                /\ activeEmailIds' =
                       addActiveEmailsIds(activeEmailIds, [isArray |-> FALSE, item |-> messageId])
                /\ reads' = [reads EXCEPT ![t] =
                                 [@ EXCEPT !.pc = "done",
                                           !.returned = Success(digest)]]
       ELSE /\ UNCHANGED <<emailCache, cacheLog, activeEmailIds>>
            /\ reads' = [reads EXCEPT ![t] =
                             [@ EXCEPT !.pc = "done",
                                       !.returned = Failure("Not Found")]]
    /\ UNCHANGED <<conversationHistory, ret, exchangeLog, pipelineVars, requests, fetchLog>>

NextServer ==
    \/ \E r \in RequestIds, query \in Queries, resume \in Resumes : receive(r, query, resume)
    \/ \E r \in RequestIds : handleQueryCall(r)
    \/ \E r \in RequestIds, outcome \in AgentOutcomes : agentReturns(r, outcome)
    \/ \E r \in RequestIds : backoffElapsed(r)
    \/ \E t \in ReadIds, r \in RequestIds, id \in FocusIds : readEmailCall(t, r, id)
    \/ \E t \in ReadIds, ok \in BOOLEAN : gmailClientReady(t, ok)
    \/ \E t \in ReadIds, ok \in BOOLEAN : emailContentArrives(t, ok)

SpecServer == InitServer /\ [][NextServer]_vars

\* the event loop runs every continuation that is ready: agent.invoke settles,
\* the mailbox calls settle and the timer fires; no request or tool call has to come
LiveServer ==
    /\ SpecServer
    /\ \A r \in RequestIds :
           /\ WF_vars(handleQueryCall(r))
           /\ WF_vars(\E outcome \in AgentOutcomes : agentReturns(r, outcome))
           /\ WF_vars(backoffElapsed(r))
    /\ \A t \in ReadIds :
           /\ WF_vars(\E ok \in BOOLEAN : gmailClientReady(t, ok))
           /\ WF_vars(\E ok \in BOOLEAN : emailContentArrives(t, ok))

----------------------------------------------------------------------------
(* Claims about the server *)

\* the message the claim describes for a query and a context block
Prefixed(block, query) == "[CONTEXT]\n" \o block \o "\n[/CONTEXT]\n\nUser: " \o query

\* C13: handleQuery sends "[CONTEXT]\n<block>\n[/CONTEXT]\n\nUser: <query>" to
\* the agent exactly when the request is a new query (not a resume) and the
\* context block is not empty; in every other case the query is passed as it is
C13_ContextPrefix ==
    \A r \in RequestIds :
        requests[r].calls > 0 =>
            LET query == orElse(requests[r].query, "")
                isNew == requests[r].resume = Undefined
            IN  /\ requests[r].enriched =
                       IF isNew /\ requests[r].rendered # ""
                       THEN Prefixed(requests[r].rendered, query)
                       ELSE query
                /\ isNew => requests[r].sent =
                                [messages |-> << [role |-> "user",
                                                  content |-> requests[r].enriched] >>]

\* a new query was sent with the block of a store that is not empty
C13_Witness ==
    \E r \in RequestIds :
        /\ requests[r].pc = "invoke"
        /\ requests[r].resume = Undefined
        /\ requests[r].rendered # ""
        /\ requests[r].sent.messages[1].content =
               Prefixed(requests[r].rendered, requests[r].query.str)

\* read t is called in this step
Called(t) == reads[t].pc = "idle" /\ reads'[t].pc # "idle"

\* read t stores its digest in this step
Inserts(t) == reads[t].pc = "getEmailContent" /\ reads'[t].pc = "done" /\ "email" \in DOMAIN reads'[t].returned

\* C14: read_email on a cached id returns the cached digest unchanged, with no
\* fetch from the mailbox and no write to the cache, and adds the id to the
\* active set; a digest is fetched and built only for an id that was not in the
\* cache when the tool was called; a cached id leaves the cache only when an
\* insertion into a full cache evicts it
C14_CachedRead ==
    [][/\ \A t \in ReadIds :
              Called(t) =>
                  LET messageId == reads'[t].messageId
                  IN  IF MapHas(emailCache, messageId)
                      THEN /\ reads'[t].pc = "done"
                           /\ reads'[t].returned =
                                  [success |-> TRUE, email |-> MapGet(emailCache, messageId)]
                           /\ emailCache' = emailCache
                           /\ cacheLog' = cacheLog
                           /\ fetchLog' = fetchLog
                           /\ \E i \in 1..Len(activeEmailIds') : activeEmailIds'[i] = messageId
                      ELSE ~reads'[t].hit
       /\ (fetchLog' # fetchLog \/ emailCache' # emailCache) =>
              \E t \in ReadIds : /\ ~reads[t].hit
                                 /\ reads[t].pc \in {"getGmailClient", "getEmailContent"}
                                 /\ reads'[t].pc # reads[t].pc
       /\ \A i \in 1..Len(emailCache) :
              ~MapHas(emailCache', emailCache[i].key) =>
                  /\ Len(emailCache) >= maxCache
                  /\ \E t \in ReadIds : Inserts(t)
      ]_vars

\* a read found its id in the cache and returned the digest kept there
C14_Witness ==
    \E t \in ReadIds :
        /\ reads[t].pc = "done"
        /\ reads[t].hit
        /\ MapHas(emailCache, reads[t].messageId)
        /\ reads[t].returned.email = MapGet(emailCache, reads[t].messageId)
        /\ \E i \in 1..Len(activeEmailIds) : activeEmailIds[i] = reads[t].messageId
        /\ \A i \in 1..Len(fetchLog) : fetchLog[i] = reads[t].messageId =>
               \E u \in ReadIds : u # t /\ reads[u].messageId = reads[t].messageId

\* C15: no read-modify-write of the store spans an external call: a read_email
\* that saw a miss stores its digest only while the id is still absent, so two
\* reads of one uncached id in flight never both fetch and both insert
C15_InsertOnlyWhileAbsent ==
    [][\A t \in ReadIds : Inserts(t) => ~MapHas(emailCache, reads[t].messageId)]_vars

\* the texts the claim counts as a rate-limit error
RateLimitText(errStr) == includes(errStr, "429") \/ includes(errStr, "rate_limit")

\* C16: a request to /api/message calls handleQuery at most 3 times; every call
\* after the first follows a rate-limit error (its text holds "429" or
\* "rate_limit") and a completed backoff wait; an error of any other kind ends
\* the request at once
C16_BoundedRetries ==
    \A r \in RequestIds :
        /\ requests[r].calls <= 3
        /\ requests[r].calls <= requests[r].waits + 1
        /\ \A k \in 1..Len(requests[r].errors) :
               /\ k < requests[r].calls => RateLimitText(requests[r].errors[k])
               /\ ~RateLimitText(requests[r].errors[k]) =>
                      /\ k = requests[r].calls
                      /\ requests[r].pc = "done"
                      /\ requests[r].status = 500

\* three calls, each one rate-limited, and the request given up after the third wait
C16_Witness ==
    \E r \in RequestIds :
        /\ requests[r].calls = 3
        /\ requests[r].waits = 3
        /\ Len(requests[r].errors) = 3
        /\ requests[r].pc = "done"
        /\ requests[r].status = 429

----------------------------------------------------------------------------
(* Claims about classifyEmail, the summary and cleanEmailBody, stated of SpecDigest *)

Categories ==
    { "promotional", "newsletter", "security", "transactional", "event", "notification",
      "development", "personal" }

\* C21: classify is total: for any headers and cleaned body, absent header
\* fields and empty strings included, it returns exactly one of the 8
\* categories, and it returns personal when sender, subject and body are all empty
C21_ClassifyTotal ==
    Built =>
        /\ result.value.type \in Categories
        /\ ( /\ orElse(emailContent.headers.from, "") = ""
             /\ orElse(emailContent.headers.subject, "") = ""
             /\ result.cleanedBody = "" ) => result.value.type = "personal"

\* a message without sender, subject and text was classified
C21_Witness ==
    /\ Built
    /\ emailContent.headers = NoHeaders
    /\ emailContent.body = Undefined
    /\ result.cleanedBody = ""
    /\ result.value.type = "personal"

\* the vocabulary of each rule, as the claim's source lists it
MarketingVocabulary ==
    << "noreply", "no-reply", "newsletter", "marketing", "promo", "offer", "sale", "discount",
       "deal", "unsubscribe" >>

PriceVocabulary ==
    << "off", "%", "discount", "sale", "deal", "coupon", "offer", "price", "save" >>

SecurityVocabulary ==
    << "alert", "security", "verification", "verify", "password", "signin", "login",
       "suspicious", "unusual" >>

TransactionVocabulary ==
    << "invoice", "payment", "receipt", "order", "transaction", "billing", "subscription" >>

EventVocabulary ==
    << "meeting", "invite", "calendar", "event", "rsvp", "attend", "join", "webinar", "summit",
       "conference" >>

NotificationVocabulary == << "notification", "update", "reminder", "notice" >>

DevelopmentVocabulary ==
    << "github", "gitlab", "jenkins", "deploy", "build", "commit", "pull request", "merge" >>

\* one of the words occurs in one of the texts
Mentions(words, texts) ==
    \E k \in 1..Len(words), j \in 1..Len(texts) : includes(texts[j], words[k])

\* the rules a message matches
RulesMatched(texts) ==
    {k \in 1..6 :
        Mentions(<< MarketingVocabulary, SecurityVocabulary, TransactionVocabulary,
                    EventVocabulary, NotificationVocabulary, DevelopmentVocabulary >>[k],
                 texts)}

\* the category of the earliest rule matched
FirstRuleCategory(texts) ==
    LET matched == RulesMatched(texts)
    IN  IF matched = {} THEN "personal"
        ELSE LET first == CHOOSE k \in matched : \A other \in matched : k <= other
             IN  IF first = 1
                 THEN IF Mentions(PriceVocabulary, texts) THEN "promotional" ELSE "newsletter"
                 ELSE << "", "security", "transactional", "event", "notification",
                         "development" >>[first]

\* C22: classify returns the category of the first matching rule in the order
\* marketing (promotional with price vocabulary, else newsletter), security,
\* transactional, event, notification, development: a message with the
\* vocabulary of several rules gets the category of the earliest one, and
\* personal is returned only when no rule matches
C22_FirstRuleWins ==
    Built =>
        result.value.type =
            Eager(FirstRuleCategory,
                  << toLowerCase(orElse(emailContent.headers.from, "")),
                     toLowerCase(orElse(emailContent.headers.subject, "")),
                     toLowerCase(result.cleanedBody) >>)

\* a message with the words of the security, transaction, event, notification
\* and development rules was classified as security
C22_Witness ==
    /\ Built
    /\ emailContent = Mail("alerts@bank.example", "Payment alert",
                           "Your meeting update is on github.")
    /\ result.value.type = "security"

\* the 400-character cut that follows the choice of the summary
Capped(text) == IF Len(text) > 400 THEN SubSeq(text, 1, 397) \o "..." ELSE text

\* emailContent has no body text
NoBody == emailContent.body = Undefined \/ emailContent.body = Str("")

\* C23: build takes as summary the key phrases joined with ". " when there are
\* any; else the first 300 characters of the cleaned body when that is not
\* empty; else the snippet when there is one; else "No readable content". In
\* particular the summary of a message with an empty body and a snippet is the
\* snippet text
C23_SummaryPreference ==
    Built =>
        LET keyPhrases == result.keyInfo.keyPhrases
            snippet == emailContent.snippet
            chosen == IF Len(keyPhrases) > 0 THEN join(keyPhrases, ". ")
                      ELSE IF result.cleanedBody # "" THEN SubSeq(result.cleanedBody, 1, Min(300, Len(result.cleanedBody)))
                      ELSE IF snippet # Undefined /\ snippet # Str("") THEN snippet.str
                      ELSE "No readable content"
        IN  /\ result.value.summary = Capped(chosen)
            /\ (NoBody /\ snippet # Undefined /\ snippet # Str(""))
                   => result.value.summary = Capped(snippet.str)

\* C24: build never fails on malformed or absent input fields: without
\* headers, without some header field, with an empty or absent body or
\* snippet, it returns a digest in which an absent from is "Unknown", an absent
\* subject is "No Subject", an absent to or date is "", and fullBodyLength is
\* the length of the original body (0 when absent)
C24_BuildTotal ==
    result # Null =>
        /\ ~result.threw
        /\ \A field \in {"from", "to", "subject", "date"} :
               result.value[field] =
                   IF emailContent.headers[field] = Undefined
                   THEN [from |-> "Unknown", to |-> "", subject |-> "No Subject", date |-> ""][field]
                   ELSE IF emailContent.headers[field] = Str("")
                        THEN result.value[field]
                        ELSE emailContent.headers[field].str
        /\ result.value.fullBodyLength =
               IF emailContent.body = Undefined THEN 0 ELSE Len(emailContent.body.str)

\* a line of the text starts with ">"
HasQuotedLine(text) ==
    \E i \in 1..Len(text) :
        /\ SubSeq(text, i, i) = ">"
        /\ i = 1 \/ SubSeq(text, i - 1, i - 1) = "\n"

\* C25: for every raw body (an empty or absent one gives the empty string) the
\* output of clean has no substring matching the URL pattern, no line
\* starting with ">", and no run of 3 or more newlines
C25_CleanOutput ==
    Built =>
        /\ (NoBody /\ orElse(emailContent.snippet, "") = "") => result.cleanedBody = ""
        /\ ~test(urlPattern, result.cleanedBody, TRUE)
        /\ ~HasQuotedLine(result.cleanedBody)
        /\ ~includes(result.cleanedBody, "\n\n\n")

----------------------------------------------------------------------------
(* Claims about the store's writes, stated of Spec *)

\* the ids a cache holds
CachedIds(m) == {m[i].key : i \in 1..Len(m)}

\* C26: cacheDigest(id, d) for an id that is already cached replaces that id's
\* digest and removes no other id: the set of cached ids is the same before
\* and after the call, also when the cache is at capacity
C26_ReplaceKeepsIds ==
    [][\A id \in MessageIds, d \in Digests :
          (cacheEmail(id, d) /\ MapHas(emailCache, id)) =>
              /\ MapGet(emailCache', id) = d
              /\ CachedIds(emailCache') = CachedIds(emailCache)]_vars

\* the other ids of the cache whose entry a step removed or changed
Disturbed(id) ==
    {k \in CachedIds(emailCache) \ {id} :
        ~MapHas(emailCache', k) \/ MapGet(emailCache', k) # MapGet(emailCache, k)}

\* C27 (one call): what each method of the store leaves as it is
C27_FrameStep ==
    /\ \A id \in MessageIds, d \in Digests :
           cacheEmail(id, d) =>
               /\ activeEmailIds' = activeEmailIds
               /\ conversationHistory' = conversationHistory
               /\ CachedIds(emailCache') \subseteq CachedIds(emailCache) \cup {id}
               /\ Cardinality(Disturbed(id)) <= 1
               /\ \A k \in Disturbed(id) : ~MapHas(emailCache', k)
    /\ \A ids \in IdsArgs :
           (setActiveEmails(ids) \/ addActiveEmails(ids)) =>
               /\ emailCache' = emailCache
               /\ conversationHistory' = conversationHistory
    /\ \A u \in UserMsgs, a \in AgentMsgs :
           addExchange(u, a) =>
               /\ emailCache' = emailCache
               /\ activeEmailIds' = activeEmailIds
    /\ (getActiveDigests \/ getContextForLLM) =>
           /\ emailCache' = emailCache
           /\ activeEmailIds' = activeEmailIds
           /\ conversationHistory' = conversationHistory

\* C27: each store mutator changes only its own component: cacheDigest leaves
\* the active ids and the history unchanged and changes no cache entry other
\* than the inserted id and the single evicted one; setActiveEmails and
\* addActiveEmails leave the cache and the history unchanged; recordExchange
\* leaves the cache and the active ids unchanged; getActiveDigests and
\* renderContext change nothing
C27_MutatorsKeepToTheirPart == [][C27_FrameStep]_vars

\* getActiveDigests ran on a store with cached digests, a history, and an
\* active id that is not cached
C27_Witness ==
    /\ ret.op = "getActiveDigests"
    /\ Len(emailCache) > 0
    /\ Len(conversationHistory) > 0
    /\ \E i \in 1..Len(activeEmailIds) : ~MapHas(emailCache, activeEmailIds[i])

----------------------------------------------------------------------------
(* Claims about a request from its arrival to its response *)

RECURSIVE Recorded(_)
\* the exchanges recorded by the requests 1..n
Recorded(n) == IF n = 0 THEN 0 ELSE requests[n].exchanges + Recorded(n - 1)

\* C28: a handleQuery attempt in which the agent fails records no exchange, so
\* one request adds at most one exchange (two history entries) to the history
\* however many times the server retries it, and a resume-only request adds none
C28_OneExchangePerRequest ==
    /\ \A r \in RequestIds :
           /\ requests[r].exchanges <= 1
           /\ isFalsy(requests[r].query) => requests[r].exchanges = 0
           /\ requests[r].exchanges > 0 =>
                  /\ requests[r].pc = "done"
                  /\ requests[r].status = 200
                  /\ requests[r].calls = Len(requests[r].errors) + 1
    /\ Len(exchangeLog) = Recorded(MaxRequests)
    /\ Len(conversationHistory) = Min(2 * Len(exchangeLog), 2 * maxHistory)

\* a query was answered at the third attempt, and is in the history once
C28_Witness ==
    \E r \in RequestIds :
        /\ requests[r].status = 200
        /\ Len(requests[r].errors) = 2
        /\ requests[r].exchanges = 1
        /\ Len(conversationHistory) = 2
        /\ conversationHistory[1].content = requests[r].query.str

\* the response the claim gives a request, from what it asked and the errors of its attempts
StatusDue(q) ==
    IF isFalsy(q.query) /\ q.resume = Undefined THEN 400
    ELSE IF \E k \in 1..Len(q.errors) : ~RateLimitText(q.errors[k]) THEN 500
    ELSE IF Len(q.errors) = 3 THEN 429
    ELSE 200

\* C29 (state): a request has a response once it is done and none before; the
\* response is the one due, and a request answered 400 never called handleQuery
C29_ResponseDue ==
    \A r \in RequestIds :
        IF requests[r].pc = "done"
        THEN /\ requests[r].status = StatusDue(requests[r])
             /\ requests[r].status = 400 => requests[r].calls = 0
             /\ requests[r].status = 200 => requests[r].body.ok
             /\ requests[r].status \in {429, 500} => ~requests[r].body.ok
        ELSE requests[r].status = 0

\* C29 (one step): a response is not followed by another one, and the step
\* that answers 400 leaves the store as it is
C29_ResponseStep ==
    \A r \in RequestIds :
        /\ requests[r].pc = "done" => requests'[r] = requests[r]
        /\ (requests[r].pc = "idle" /\ requests'[r].status = 400) =>
               UNCHANGED <<emailCache, activeEmailIds, conversationHistory>>

\* C29: provided each handleQuery attempt eventually returns or throws, every
\* request to /api/message eventually gets exactly one response: 400 when query
\* and resume are both missing (handleQuery is not called and the store is
\* untouched), 429 when all three attempts were rate-limited, 500 when an
\* attempt failed with any other error, and a success response otherwise
C29_EveryRequestAnswered ==
    /\ [](C29_ResponseDue)
    /\ [][C29_ResponseStep]_vars
    /\ \A r \in RequestIds : (requests[r].pc # "idle") ~> (requests[r].pc = "done")

\* a request was rate-limited once and then failed with another error: 500
C29_Witness ==
    \E r \in RequestIds :
        /\ requests[r].pc = "done"
        /\ requests[r].status = 500
        /\ Len(requests[r].errors) = 2
        /\ requests[r].calls = 2

====
